---- MODULE Spec2Model ----
(***************************************************************************)
(* A model of generate.py: the extraction of laboratory measurement        *)
(* records from converted PDF markup and from semicolon-separated exports, *)
(* their validation, and their merge into the JSON store data.json.        *)
(*                                                                         *)
(* Text is modelled character by character.  A Python str is a TLA+ string *)
(* at the interface of every modelled function; inside, Chars turns it     *)
(* into the sequence of its one-character strings and Str turns such a     *)
(* sequence back.  Regular expressions are modelled by scanners that       *)
(* follow the matching the re module performs for the pattern in question. *)
(***************************************************************************)
EXTENDS Naturals, Sequences, FiniteSets, TLC

VARIABLES
    store,        \* content of data.json (data_file)
    before,       \* content of data.json when the last save_as_json call began
    batch,        \* the `data` argument of the last save_as_json call
    outcome,      \* "none" | "ok" | the exception the last call raised
    calls,        \* number of save_as_json calls made so far
    cand,         \* the row under validation: raw fields, then the dict `data`
    verdict,      \* "none" | "accepted" | "rejected": truthiness of is_valid_row
    src,          \* a source file: [kind |-> "csv" | "html", text |-> content]
    stage,        \* "read" | "done": position of the per-file extraction
    content,      \* `content` of the loop: the valid csv lines / the normalized markup
    json,         \* the extracted batch, or the exception extraction raised
    pc,           \* pipeline position: "start" | "csv" | "pdf" | "fin" | "crashed"
    dirs,         \* the directories among csv, exe, pdf that exist
    nCsv,         \* number of .csv files in csv_dir
    nPdf,         \* number of .pdf files in pdf_dir
    idx,          \* index of the file the current loop processes next
    convFailed,   \* indexes of the pdf files whose conversion failed
    merged,       \* indexes of the pdf files extracted and merged
    dropped       \* has is_valid_row rejected a row of a file processed so far?

vars == <<store, before, batch, outcome, calls, cand, verdict, src, stage,
          content, json, pc, dirs, nCsv, nPdf, idx, convFailed, merged, dropped>>

mergeVars == <<store, before, batch, outcome, calls>>
validVars == <<cand, verdict>>
sourceVars == <<src, stage, content, json>>
pipeVars == <<pc, dirs, nCsv, nPdf, idx, convFailed, merged, dropped>>

(***************************************************************************)
(* Strings                                                                 *)
(***************************************************************************)

\* The characters of a str, as a sequence of one-character strings.
Chars(s) == [i \in 1..Len(s) |-> SubSeq(s, i, i)]

\* The str made of a sequence of characters (halved, to keep the
\* evaluation shallow).
RECURSIVE Str(_)
Str(cs) ==
    IF cs = <<>> THEN ""
    ELSE IF Len(cs) = 1 THEN cs[1]
    ELSE LET half == Len(cs) \div 2
         IN  Str(SubSeq(cs, 1, half)) \o Str(SubSeq(cs, half + 1, Len(cs)))

\* The least element of a set of positions, or `none` if the set is empty:
\* where a left-to-right scan first finds what the set collects.
Least(positions, none) ==
    IF positions = {} THEN none
    ELSE CHOOSE q \in positions : \A r \in positions : q <= r

Digits == {"0", "1", "2", "3", "4", "5", "6", "7", "8", "9"}

\* The characters str.strip() removes, among the characters of the model.
Whitespace == {" ", "\t", "\n", "\r"}

\* Does the character sequence `pat` occur in cs at position p?
StartsWithAt(cs, p, pat) ==
    /\ p + Len(pat) - 1 <= Len(cs)
    /\ \A k \in 1..Len(pat) : cs[p + k - 1] = pat[k]

\* str.strip(): drop leading and trailing whitespace.
LStrip(cs) ==
    SubSeq(cs, Least({q \in 1..Len(cs) : cs[q] \notin Whitespace}, Len(cs) + 1),
           Len(cs))

RStrip(cs) ==
    IF \E q \in 1..Len(cs) : cs[q] \notin Whitespace
    THEN SubSeq(cs, 1, CHOOSE q \in 1..Len(cs) :
                          /\ cs[q] \notin Whitespace
                          /\ \A r \in (q + 1)..Len(cs) : cs[r] \in Whitespace)
    ELSE <<>>

strip(s) == Str(RStrip(LStrip(Chars(s))))

\* str.replace(old, new) on character sequences: leftmost occurrences,
\* non-overlapping, scanning from position p.
RECURSIVE ReplaceFrom(_, _, _, _)
ReplaceFrom(cs, p, old, new) ==
    LET q == Least({r \in p..Len(cs) : StartsWithAt(cs, r, old)}, Len(cs) + 1)
    IN  IF q > Len(cs) THEN SubSeq(cs, p, Len(cs))
        ELSE SubSeq(cs, p, q - 1) \o new \o ReplaceFrom(cs, q + Len(old), old, new)

replace(cs, old, new) == ReplaceFrom(cs, 1, Chars(old), Chars(new))

\* `old in content`
Contains(cs, old) ==
    \E p \in 1..Len(cs) : StartsWithAt(cs, p, Chars(old))

\* The first position >= p of cs that holds no digit (Len(cs) + 1 if none):
\* where a greedy \d* or \d+ starting at p stops.
DigitsEnd(cs, p) == Least({q \in p..Len(cs) : cs[q] \notin Digits}, Len(cs) + 1)

\* The shape of \d{2}/\d{2}/\d{4} \d{2}:\d{2}, "d" standing for \d.
DatePattern == Chars("dd/dd/dddd dd:dd")

\* Does \d{2}/\d{2}/\d{4} \d{2}:\d{2} match cs at position p?
DateAt(cs, p) ==
    /\ p + Len(DatePattern) - 1 <= Len(cs)
    /\ \A k \in 1..Len(DatePattern) :
          IF DatePattern[k] = "d"
          THEN cs[p + k - 1] \in Digits
          ELSE cs[p + k - 1] = DatePattern[k]

(***************************************************************************)
(* Record Validator                                                        *)
(***************************************************************************)

\* A mutation of ValueMatches: the decimal point is optional,
\* r'^-?\d+\.?\d*$'.
ValueMatchesDotOptional(value) ==
    LET cs == Chars(value)
        p1 == IF cs # <<>> /\ cs[1] = "-" THEN 2 ELSE 1
        p2 == DigitsEnd(cs, p1)
        p3 == IF p2 <= Len(cs) /\ cs[p2] = "." THEN DigitsEnd(cs, p2 + 1) ELSE p2
    IN  /\ p2 > p1
        /\ \/ p3 = Len(cs) + 1
           \/ p3 = Len(cs) /\ cs[p3] = "\n"

\* re.match(r'^-?\d+\.\d*$', value): an optional minus, a greedy run of at
\* least one digit, a dot, a greedy run of digits, and then `$`, which
\* without re.MULTILINE matches at the end of the string and also just
\* before a line feed that ends the string.
ValueMatches(value) ==
    LET cs == Chars(value)
        p1 == IF cs # <<>> /\ cs[1] = "-" THEN 2 ELSE 1
        p2 == DigitsEnd(cs, p1)
        p3 == DigitsEnd(cs, p2 + 1)
    IN  /\ p2 > p1
        /\ p2 <= Len(cs) /\ cs[p2] = "."
        /\ \/ p3 = Len(cs) + 1
           \/ p3 = Len(cs) /\ cs[p3] = "\n"

\* is_valid_row(data), as the truth value of what it returns.
is_valid_row(data) ==
    /\ data["date"] # ""
    /\ DateAt(Chars(data["date"]), 1)
    /\ ValueMatches(data["value"])
    /\ data["name"] # ""

\* The six keys of an extracted dict.
FieldNames == {"date", "oldvalue", "range", "unit", "value", "name"}

\* The fields a row can be made of before the extractors strip them.
RawDates == {"", "01/10/2023 09:15", " 01/10/2023 09:15 ", "01/10/2023 09:15:30",
             "1/10/2023 09:15", "01-10-2023 09:15", "x01/10/2023 09:15"}
RawValues == {"", "7.8", "-7.8", "7.", "7", ".8", "7.8.1", "7,8", "7.8 mg",
              " 7.8\n", "--7.8", "+7.8", "-.8", "7.8-"}
RawNames == {"", " ", "Glucose", " Glucose\n"}
RawOthers == {"", "3.5-5.5"}

\* The dict the extractors build from the captured fields: every field
\* stripped (extract_lines_with_specified_format and csv_parse_lines alike).
StripFields(raw) == [f \in DOMAIN raw |-> strip(raw[f])]

InitValid ==
    /\ cand \in [date : RawDates, oldvalue : RawOthers, range : RawOthers,
                 unit : {"mmol/L"}, value : RawValues, name : RawNames]
    /\ verdict = "none"

\* The body of the extractors' loops: build the dict, validate it.
ValidateRow ==
    /\ verdict = "none"
    /\ cand' = StripFields(cand)
    /\ verdict' = IF is_valid_row(cand') THEN "accepted" ELSE "rejected"

(***************************************************************************)
(* Text helpers of the extractors                                          *)
(***************************************************************************)

\* The first position >= p of cs that holds character c (Len(cs) + 1 if none).
Find(cs, p, c) == Least({q \in p..Len(cs) : cs[q] = c}, Len(cs) + 1)

\* str.split(sep) for a one-character separator: the pieces between the
\* separators, empty pieces included, at least one piece.
RECURSIVE SplitFrom(_, _, _)
SplitFrom(cs, p, sep) ==
    LET q == Find(cs, p, sep)
    IN  IF q > Len(cs) THEN <<SubSeq(cs, p, Len(cs))>>
        ELSE <<SubSeq(cs, p, q - 1)>> \o SplitFrom(cs, q + 1, sep)

split(cs, sep) == SplitFrom(cs, 1, sep)

\* The line boundaries str.splitlines() knows, among the model's characters.
LineBreaks == {"\n", "\r"}

FindBreak(cs, p) == Least({q \in p..Len(cs) : cs[q] \in LineBreaks}, Len(cs) + 1)

\* str.splitlines(): the lines without their line breaks; "\r\n" is one
\* break, and a break that ends the text opens no further line.
RECURSIVE SplitLinesFrom(_, _)
SplitLinesFrom(cs, p) ==
    IF p > Len(cs) THEN <<>>
    ELSE LET q == FindBreak(cs, p)
             next == IF q < Len(cs) /\ cs[q] = "\r" /\ cs[q + 1] = "\n"
                     THEN q + 2 ELSE q + 1
         IN  <<SubSeq(cs, p, q - 1)>> \o SplitLinesFrom(cs, next)

splitlines(cs) == SplitLinesFrom(cs, 1)

\* sep.join(pieces) on character sequences.
RECURSIVE Join(_, _)
Join(pieces, sep) ==
    IF pieces = <<>> THEN <<>>
    ELSE IF Len(pieces) = 1 THEN pieces[1]
    ELSE pieces[1] \o sep \o Join(Tail(pieces), sep)

\* Where r'\d+(?:,\d+)+' stops when its digits began at p and the greedy
\* first run of digits stopped at q: after every further ",digits" group.
RECURSIVE CommaGroupsEnd(_, _)
CommaGroupsEnd(cs, q) ==
    IF q < Len(cs) /\ cs[q] = "," /\ cs[q + 1] \in Digits
    THEN CommaGroupsEnd(cs, DigitsEnd(cs, q + 1)) ELSE q

\* The end (first position after) of the match of
\* r'\d+(?:,\d+)+|\d+,\d+' at p, or p if it does not match at p.  The
\* second alternative matches nothing the first does not.
CommaNumberEnd(cs, p) ==
    LET q == DigitsEnd(cs, p)
    IN  IF q > p THEN LET e == CommaGroupsEnd(cs, q) IN IF e > q THEN e ELSE p
        ELSE p

\* re.sub of fix_floating_point_numbers from position p: each match,
\* leftmost first, with its commas turned into dots.
RECURSIVE FixFrom(_, _)
FixFrom(cs, p) ==
    LET q == Least({r \in p..Len(cs) : CommaNumberEnd(cs, r) > r}, Len(cs) + 1)
        e == CommaNumberEnd(cs, q)
    IN  IF q > Len(cs) THEN SubSeq(cs, p, Len(cs))
        ELSE SubSeq(cs, p, q - 1)
             \o [k \in 1..(e - q) |->
                    IF cs[q + k - 1] = "," THEN "." ELSE cs[q + k - 1]]
             \o FixFrom(cs, e)

fix_floating_point_numbers(cs) == FixFrom(cs, 1)

(***************************************************************************)
(* Line Extractor, delimited export                                        *)
(***************************************************************************)

\* re.match(r'.*;\d{2}/\d{2}/\d{4} \d{2}:\d{2};', line): the pattern is
\* anchored at the start of the line only, and `.*` takes any prefix of a
\* line (a line holds no line feed), so it matches when ";date;" occurs
\* anywhere in the line.
CsvLineMatches(line) ==
    \E p \in 1..Len(line) :
        /\ line[p] = ";"
        /\ DateAt(line, p + 1)
        /\ p + Len(DatePattern) + 1 <= Len(line)
        /\ line[p + Len(DatePattern) + 1] = ";"

\* csv_extract_valid_rows(csv_data): the list of the lines that match.
csv_extract_valid_rows(csv_data) ==
    LET c1 == replace(Chars(csv_data), "  ", " ")
        c2 == replace(c1, "  ", " ")
        c3 == replace(c2, " >", ">")
        c4 == replace(c3, "*", "")
        c5 == fix_floating_point_numbers(c4)
        csv_lines == splitlines(c5)
        valid == SelectSeq(csv_lines, CsvLineMatches)
    IN  [k \in 1..Len(valid) |-> Str(valid[k])]

\* row = line.strip().split(';')
CsvRow(line) == split(RStrip(LStrip(Chars(line))), ";")

\* The positions csv_parse_lines reads, 0-based as in the source, and the
\* number of fields a row needs for the last of them.
CsvPositions ==
    [name |-> 0, value |-> 3, unit |-> 4, range |-> 5, oldvalue |-> 7, date |-> 12]
CsvFieldsNeeded == 13

\* The dict csv_parse_lines builds from a row that is long enough.
CsvData(row) == [f \in FieldNames |-> strip(Str(row[CsvPositions[f] + 1]))]

\* Is row[3], ..., row[12] within the row?
CsvRowLongEnough(line) ==
    \A f \in FieldNames : CsvPositions[f] + 1 <= Len(CsvRow(line))

\* The dicts of the rows, validated or not.
CsvCandidates(lines) == [k \in 1..Len(lines) |-> CsvData(CsvRow(lines[k]))]

\* A mutation of csv_parse_lines: every row is kept, is_valid_row is not asked.
csv_parse_lines_unvalidated(lines) ==
    IF \E k \in 1..Len(lines) : ~CsvRowLongEnough(lines[k])
    THEN [raised |-> "IndexError", data |-> <<>>]
    ELSE [raised |-> "ok", data |-> CsvCandidates(lines)]

\* csv_parse_lines(lines): the valid dicts, or IndexError from the first
\* row that is too short for a position read.
csv_parse_lines(lines) ==
    IF \E k \in 1..Len(lines) : ~CsvRowLongEnough(lines[k])
    THEN [raised |-> "IndexError", data |-> <<>>]
    ELSE [raised |-> "ok", data |-> SelectSeq(CsvCandidates(lines), is_valid_row)]

(***************************************************************************)
(* Markup Normalizer                                                       *)
(***************************************************************************)

\* re.sub of remove_attribute from position p: name=Q[^Q]*Q is removed,
\* from the name to the next quote character after the opening one.
RECURSIVE RemoveAttributeFrom(_, _, _, _)
RemoveAttributeFrom(cs, p, opening, quote) ==
    LET closed(r) == Find(cs, r + Len(opening), quote) <= Len(cs)
        q == Least({r \in p..Len(cs) : StartsWithAt(cs, r, opening) /\ closed(r)},
                   Len(cs) + 1)
    IN  IF q > Len(cs) THEN SubSeq(cs, p, Len(cs))
        ELSE SubSeq(cs, p, q - 1)
             \o RemoveAttributeFrom(cs, Find(cs, q + Len(opening), quote) + 1,
                                    opening, quote)

remove_attribute(cs, attribute_name, quote_character) ==
    RemoveAttributeFrom(cs, 1, Chars(attribute_name \o "=" \o quote_character),
                        quote_character)

\* while " >" in content: content = content.replace(" >", ">")
RECURSIVE CollapseBeforeBracket(_)
CollapseBeforeBracket(cs) ==
    IF Contains(cs, " >") THEN CollapseBeforeBracket(replace(cs, " >", ">")) ELSE cs

\* The character references of the model's markup and what html.unescape
\* makes of them.  The texts of the model hold "&" in these forms only.
Entities ==
    {<<"&amp;", "&">>, <<"&lt;", "<">>, <<"&gt;", ">">>, <<"&quot;", "\"">>}

\* html.unescape from position p: one pass, what a reference decodes to is
\* not decoded again.
RECURSIVE UnescapeFrom(_, _)
UnescapeFrom(cs, p) ==
    LET q == Least({r \in p..Len(cs) :
                      \E e \in Entities : StartsWithAt(cs, r, Chars(e[1]))},
                   Len(cs) + 1)
        ref == CHOOSE e \in Entities : StartsWithAt(cs, q, Chars(e[1]))
    IN  IF q > Len(cs) THEN SubSeq(cs, p, Len(cs))
        ELSE SubSeq(cs, p, q - 1) \o Chars(ref[2])
             \o UnescapeFrom(cs, q + Len(ref[1]))

html_unescape(cs) == UnescapeFrom(cs, 1)

\* re.sub of insert_newline_before_datetime from position p.
RECURSIVE InsertNewlineFrom(_, _)
InsertNewlineFrom(cs, p) ==
    LET q == Least({r \in p..Len(cs) : DateAt(cs, r)}, Len(cs) + 1)
    IN  IF q > Len(cs) THEN SubSeq(cs, p, Len(cs))
        ELSE SubSeq(cs, p, q - 1) \o <<"\n">>
             \o SubSeq(cs, q, q + Len(DatePattern) - 1)
             \o InsertNewlineFrom(cs, q + Len(DatePattern))

insert_newline_before_datetime(cs) == InsertNewlineFrom(cs, 1)

\* extract_datetime_lines_with_text: with re.MULTILINE `^` matches at the
\* start and after each line feed, and `.*` runs to the next line feed, so
\* the matches are the lines (between line feeds) that begin with a date.
LineBeginsWithDate(line) == DateAt(line, 1)

extract_datetime_lines_with_text(cs) ==
    Join(SelectSeq(split(cs, "\n"), LineBeginsWithDate), <<"\n">>)

\* Lines 261-280 of process_html_data: the text handed to
\* extract_lines_with_specified_format.
NormalizeMarkup(html) ==
    LET a1 == remove_attribute(Chars(html), "class", "\"")
        a2 == remove_attribute(a1, "id", "\"")
        a3 == remove_attribute(a2, "data-data", "'")
        a4 == remove_attribute(a3, "data-page-no", "\"")
        b == CollapseBeforeBracket(a4)
        c1 == replace(b, "</div></div><div><div>", "|")
        c2 == replace(c1, "</div><div>", " ")
        c3 == replace(c2, "<div>", "")
        c4 == replace(c3, "</div>", "")
        c5 == replace(c4, "<span>", "")
        c6 == replace(c5, "</span>", "")
        d == html_unescape(c6)
        e1 == replace(d, "*", "")
        e2 == replace(e1, "| ", "|")
        e3 == replace(e2, " |", "|")
        f == insert_newline_before_datetime(e3)
        g == extract_datetime_lines_with_text(f)
    IN  Str(fix_floating_point_numbers(g))

(***************************************************************************)
(* Line Extractor, markup                                                  *)
(***************************************************************************)

\* Where r'\d+(?:[.,]\d+)?' stops when it begins at p (p if no digit is
\* there): after the digits and, if a dot or comma and a digit follow,
\* after that fraction too.
NumberEnd(cs, p) ==
    LET q == DigitsEnd(cs, p)
    IN  IF q > p /\ q < Len(cs) /\ cs[q] \in {".", ","} /\ cs[q + 1] \in Digits
        THEN DigitsEnd(cs, q + 1) ELSE q

\* The match of the pattern of extract_lines_with_specified_format at
\* position p, a start of line.  Each field ends at the next "|": the
\* date and the two numbers hold no "|" and must be followed by one, and
\* [^|]+ and [^|]* take every character up to the next "|", line feeds
\* included.  The rest, `.*`, runs to the next line feed, where `$` matches.
\* ok tells whether the pattern matches; end is the position after the match.
MarkupMatch(cs, p) ==
    LET p1 == p + Len(DatePattern)            \* the "|" after the date
        p2 == NumberEnd(cs, p1 + 1)           \* the "|" after oldvalue
        p3 == Find(cs, p2 + 1, "|")           \* the "|" after range
        p4 == Find(cs, p3 + 1, "|")           \* the "|" after unit
        p5 == NumberEnd(cs, p4 + 1)           \* the "|" after value
        p6 == Find(cs, p5 + 1, "|")           \* the "|" after name
        p7 == Find(cs, p6 + 1, "\n")          \* the end of the line of the rest
    IN  IF /\ DateAt(cs, p)
           /\ p1 <= Len(cs) /\ cs[p1] = "|"
           /\ p2 > p1 + 1 /\ p2 <= Len(cs) /\ cs[p2] = "|"
           /\ p3 > p2 + 1 /\ p3 <= Len(cs)
           /\ p4 > p3 + 1 /\ p4 <= Len(cs)
           /\ p5 > p4 + 1 /\ p5 <= Len(cs) /\ cs[p5] = "|"
           /\ p6 <= Len(cs)
        THEN [ok |-> TRUE, end |-> p7,
              groups |-> [date |-> Str(SubSeq(cs, p, p1 - 1)),
                          oldvalue |-> Str(SubSeq(cs, p1 + 1, p2 - 1)),
                          range |-> Str(SubSeq(cs, p2 + 1, p3 - 1)),
                          unit |-> Str(SubSeq(cs, p3 + 1, p4 - 1)),
                          value |-> Str(SubSeq(cs, p4 + 1, p5 - 1)),
                          name |-> Str(SubSeq(cs, p5 + 1, p6 - 1))]]
        ELSE [ok |-> FALSE, end |-> p, groups |-> <<>>]

\* re.findall from position p, a start of line: the matches, leftmost
\* first and non-overlapping; with (?m) the pattern can begin at the start
\* of the text and after each line feed only.
RECURSIVE FindAllFrom(_, _)
FindAllFrom(cs, p) ==
    IF p > Len(cs) THEN <<>>
    ELSE LET m == MarkupMatch(cs, p)
         IN  IF m.ok
             THEN <<m.groups>> \o FindAllFrom(cs, Find(cs, m.end, "\n") + 1)
             ELSE FindAllFrom(cs, Find(cs, p, "\n") + 1)

\* The dicts of the matches, validated or not.
MarkupCandidates(text) ==
    LET found == FindAllFrom(Chars(text), 1)
    IN  [k \in 1..Len(found) |-> StripFields(found[k])]

\* extract_lines_with_specified_format(text)
extract_lines_with_specified_format(text) ==
    SelectSeq(MarkupCandidates(text), is_valid_row)

\* process_html_data(content)
process_html_data(html) == extract_lines_with_specified_format(NormalizeMarkup(html))

(***************************************************************************)
(* Store Merger                                                            *)
(***************************************************************************)

\* The unique identifier save_as_json keys its dictionary with.
Identifier(entry) == <<entry["date"], entry["name"]>>

\* data_dict[identifier] = entry on a Python dict, which keeps its keys in
\* insertion order: a new key goes last, an existing key keeps its place
\* and gets the new value.  The dict is the sequence of its values.
DictSet(data_dict, entry) ==
    IF \E i \in 1..Len(data_dict) : Identifier(data_dict[i]) = Identifier(entry)
    THEN [i \in 1..Len(data_dict) |->
             IF Identifier(data_dict[i]) = Identifier(entry)
             THEN entry ELSE data_dict[i]]
    ELSE Append(data_dict, entry)

\* The dict after assigning the entries in order, starting from data_dict.
RECURSIVE DictUpdate(_, _)
DictUpdate(data_dict, entries) ==
    IF entries = <<>> THEN data_dict
    ELSE DictUpdate(DictSet(data_dict, entries[1]), Tail(entries))

\* A mutation of MergeEntries: the new entries are appended to the
\* existing list, without the dictionary.
MergeEntriesAppend(existing_data, data) == existing_data \o data

\* A mutation of MergeEntries: an identifier that is already present
\* keeps its entry (setdefault instead of assignment).
RECURSIVE KeepFirst(_, _)
KeepFirst(data_dict, entries) ==
    IF entries = <<>> THEN data_dict
    ELSE KeepFirst(
            IF \E i \in 1..Len(data_dict) :
                  Identifier(data_dict[i]) = Identifier(entries[1])
            THEN data_dict ELSE Append(data_dict, entries[1]),
            Tail(entries))
MergeEntriesKeepFirst(existing_data, data) == KeepFirst(<<>>, existing_data \o data)

\* A mutation of MergeEntries: only the new data is kept, the loaded
\* entries are forgotten.
MergeEntriesForget(existing_data, data) == DictUpdate(<<>>, data)

\* A mutation of MergeEntries: the values are listed newest first.
MergeEntriesReversed(existing_data, data) ==
    LET d == DictUpdate(DictUpdate(<<>>, existing_data), data)
    IN  [i \in 1..Len(d) |-> d[Len(d) + 1 - i]]

\* Lines 110-119 of save_as_json: the dict built from the loaded entries,
\* updated with the new data, and listed again.
MergeEntries(existing_data, data) ==
    DictUpdate(DictUpdate(<<>>, existing_data), data)

\* The content of data.json.  The file is absent, or holds text that is no
\* JSON, or holds a JSON value: a number, an object (with at least one
\* key), or an array whose items are objects with string values.
File(kind, items) == [kind |-> kind, items |-> items]
Absent == File("absent", <<>>)
NotJson == File("notjson", <<>>)
JsonNumber == File("number", <<>>)
JsonObject == File("object", <<>>)
JsonArray(items) == File("array", items)

\* Does every item carry the two keys the dict comprehension reads?
HasIdentifier(item) == {"date", "name"} \subseteq DOMAIN item

\* save_as_json(data, file_path) on a file holding `file`: what the call
\* raises ("ok" if nothing) and what the file holds afterwards.
\*   - FileNotFoundError and json.JSONDecodeError are caught: start empty;
\*   - a number is not iterable, and iterating an object yields its keys,
\*     strings that entry["date"] cannot index: TypeError;
\*   - an item without "date" or "name": KeyError.
\* An exception leaves the file as it was: it is raised before the file is
\* opened for writing.
save_as_json(data, file) ==
    IF file.kind \in {"absent", "notjson"}
    THEN [raised |-> "ok", file |-> JsonArray(MergeEntries(<<>>, data))]
    ELSE IF file.kind \in {"number", "object"}
    THEN [raised |-> "TypeError", file |-> file]
    ELSE IF \E i \in 1..Len(file.items) : ~HasIdentifier(file.items[i])
    THEN [raised |-> "KeyError", file |-> file]
    ELSE [raised |-> "ok", file |-> JsonArray(MergeEntries(file.items, data))]

\* Bounds of the merge harness.
MaxBatch == 2
MaxCalls == 3

Date1 == "01/10/2023 09:15"
Date2 == "02/10/2023 10:30"

Entry(date, name, value) ==
    [date |-> date, oldvalue |-> "7.6", range |-> "3.5-5.5", unit |-> "mmol/L",
     value |-> value, name |-> name]

\* The entries the batches are made of: three identifiers, two of them
\* with two versions.
Entries ==
    {Entry(Date1, "Glucose", "7.8"), Entry(Date1, "Glucose", "5.1"),
     Entry(Date1, "Sodium", "7.8"),
     Entry(Date2, "Glucose", "7.8"), Entry(Date2, "Glucose", "5.1")}

Batches == UNION {[1..n -> Entries] : n \in 0..MaxBatch}

\* A call of save_as_json(data, data_file).
SaveAsJson(data) ==
    /\ calls < MaxCalls
    /\ LET r == save_as_json(data, store)
       IN  /\ store' = r.file
           /\ outcome' = r.raised
    /\ before' = store
    /\ batch' = data
    /\ calls' = calls + 1

InitMerge ==
    /\ before = Absent
    /\ batch = <<>>
    /\ outcome = "none"
    /\ calls = 0

\* What data.json can hold when the program starts.
InitialFiles ==
    {Absent, NotJson, JsonNumber, JsonObject, JsonArray(<<>>),
     JsonArray(<<Entry(Date1, "Glucose", "7.8")>>),
     JsonArray(<<[date |-> Date1, value |-> "7.8"]>>),
     JsonArray(<<Entry(Date1, "Glucose", "7.8"), [name |-> "Sodium"]>>)}

(***************************************************************************)
(* Source files                                                            *)
(***************************************************************************)

\* Bounds of the source files: lines of a csv file, rows of a converted
\* pdf, files in a directory.
MaxLines == 2
MaxRows == 2
MaxFiles == 2

\* sep.join(pieces) on strings.
RECURSIVE JoinStr(_, _)
JoinStr(pieces, sep) ==
    IF pieces = <<>> THEN ""
    ELSE IF Len(pieces) = 1 THEN pieces[1]
    ELSE pieces[1] \o sep \o JoinStr(Tail(pieces), sep)

\* The lines a csv file is made of: a full row; a full row whose value has
\* no decimal point; a short row that ends in ;date; a short row that
\* does not; a full row with spaces, an asterisk and trailing text.
CsvLines ==
    {"Glucose;;;7,8;mmol/L;3,5-5,5;;7.6;;;;;01/10/2023 09:15;",
     "Sodium;;;140;mmol/L;135-145;;139;;;;;01/10/2023 09:15;",
     "Glucose;7,8;01/10/2023 09:15;",
     "Glucose;7,8;mmol/L",
     "Glucose;;;  5,1*;mg/dL;;;;;;;;02/10/2023 10:30;x"}

CsvTexts ==
    {JoinStr(ls, "\n") : ls \in UNION {[1..n -> CsvLines] : n \in 0..MaxLines}}

\* A table row as pdf2htmlEX lays it out: a wrapper around one wrapper per
\* cell, tags carrying attributes.
HtmlRow(cells) ==
    "<div class=\"r\"><div >" \o JoinStr(cells, "</div></div><div><div>")
    \o "</div></div>"

\* The rows a converted pdf is made of: a full row; a full row whose value
\* has no decimal point; a row cut after its third cell; a full row with a
\* character reference; a heading.
HtmlRows ==
    {HtmlRow(<<Date1, "7.6", "3,5-5,5", "mmol/L", "<span>7,8</span>*", "Glucose", "H">>),
     HtmlRow(<<Date1, "139", "135-145", "mmol/L", "140", "Sodium", "">>),
     HtmlRow(<<Date1, "7.6", "3,5">>),
     HtmlRow(<<Date2, "5", "&lt;5,5", "mg/dL", "5,1", "Glucose", "">>),
     HtmlRow(<<"Tarih", "Sonuc">>)}

HtmlTexts ==
    {JoinStr(rs, "") : rs \in UNION {[1..n -> HtmlRows] : n \in 0..MaxRows}}

\* Per csv text, what the loop body of csv_process computes before it
\* stores: the parsed batch (or the exception), and whether is_valid_row
\* rejected a row.
CsvOutcome(text) ==
    LET lines == csv_extract_valid_rows(text)
        parsed == csv_parse_lines(lines)
    IN  [parsed |-> parsed,
         dropped |-> /\ parsed.raised = "ok"
                     /\ \E k \in 1..Len(lines) : ~is_valid_row(CsvCandidates(lines)[k])]
CsvTable == [text \in CsvTexts |-> CsvOutcome(text)]

\* Per converted pdf, what the loop body of pdf_process computes before it
\* stores.
HtmlOutcome(html) ==
    LET cands == MarkupCandidates(NormalizeMarkup(html))
    IN  [data |-> process_html_data(html),
         dropped |-> \E k \in 1..Len(cands) : ~is_valid_row(cands[k])]
HtmlTable == [html \in HtmlTexts |-> HtmlOutcome(html)]

InitSource ==
    /\ src \in [kind : {"csv"}, text : CsvTexts] \cup [kind : {"html"}, text : HtmlTexts]
    /\ stage = "read"
    /\ content = <<>>
    /\ json = [raised |-> "none", data |-> <<>>]

\* One csv file through csv_extract_valid_rows and csv_parse_lines
\* (lines 360 and 363 of csv_process).
ExtractCsv ==
    /\ stage = "read"
    /\ src.kind = "csv"
    /\ content' = csv_extract_valid_rows(src.text)
    /\ json' = csv_parse_lines(content')
    /\ stage' = "done"
    /\ UNCHANGED src

\* One converted pdf through process_html_data: content is the text it
\* hands to extract_lines_with_specified_format.
ExtractHtml ==
    /\ stage = "read"
    /\ src.kind = "html"
    /\ content' = NormalizeMarkup(src.text)
    /\ json' = [raised |-> "ok", data |-> extract_lines_with_specified_format(content')]
    /\ stage' = "done"
    /\ UNCHANGED src

(***************************************************************************)
(* The run: csv_process(), then pdf_process()                              *)
(***************************************************************************)

InitPipe ==
    /\ pc = "start"
    /\ dirs \in SUBSET {"csv", "exe", "pdf"}
    /\ nCsv \in 0..(IF "csv" \in dirs THEN MaxFiles ELSE 0)
    /\ nPdf \in 0..(IF "pdf" \in dirs THEN MaxFiles ELSE 0)
    /\ idx = 0
    /\ convFailed = {}
    /\ merged = {}
    /\ dropped = FALSE

\* csv_process up to its loop: without the csv folder or without csv
\* files it returns.
CsvProcessBegin ==
    /\ pc = "start"
    /\ IF "csv" \in dirs /\ nCsv > 0
       THEN pc' = "csv" /\ idx' = 1
       ELSE pc' = "pdfstart" /\ idx' = idx
    /\ UNCHANGED <<store, outcome, dirs, nCsv, nPdf, convFailed, merged, dropped>>

\* The rest of a turn of the loop of csv_process once the file's rows are
\* parsed into r: an exception of csv_parse_lines or save_as_json is caught
\* nowhere and ends the run, otherwise the batch is stored.
CsvStore(r) ==
    IF r.parsed.raised # "ok"
    THEN /\ pc' = "crashed"
         /\ outcome' = r.parsed.raised
         /\ UNCHANGED <<store, idx, dropped>>
    ELSE IF save_as_json(r.parsed.data, store).raised # "ok"
    THEN /\ pc' = "crashed"
         /\ outcome' = save_as_json(r.parsed.data, store).raised
         /\ UNCHANGED <<store, idx, dropped>>
    ELSE /\ pc' = pc
         /\ outcome' = "ok"
         /\ store' = save_as_json(r.parsed.data, store).file
         /\ idx' = idx + 1
         /\ dropped' = (dropped \/ r.dropped)

\* One turn of the loop of csv_process on a file holding `text`.
CsvFile(text) ==
    /\ pc = "csv"
    /\ idx <= nCsv
    /\ CsvStore(CsvTable[text])
    /\ UNCHANGED <<dirs, nCsv, nPdf, convFailed, merged>>

\* The end of csv_process, and main's next statement.
CsvProcessEnd ==
    /\ pc = "csv"
    /\ idx > nCsv
    /\ pc' = "pdfstart"
    /\ UNCHANGED <<store, outcome, dirs, nCsv, nPdf, idx, convFailed, merged, dropped>>

\* pdf_process up to its loop: without the exe or pdf folder or without
\* pdf files it returns.  The out folder is removed here and after every
\* file, so it holds no file of an earlier conversion.
PdfProcessBegin ==
    /\ pc = "pdfstart"
    /\ IF "exe" \in dirs /\ "pdf" \in dirs /\ nPdf > 0
       THEN pc' = "pdf" /\ idx' = 1
       ELSE pc' = "fin" /\ idx' = idx
    /\ UNCHANGED <<store, outcome, dirs, nCsv, nPdf, convFailed, merged, dropped>>

\* The rest of a turn of the loop of pdf_process once the converted file
\* is extracted into r.
PdfStore(r) ==
    IF save_as_json(r.data, store).raised # "ok"
    THEN /\ pc' = "crashed"
         /\ outcome' = save_as_json(r.data, store).raised
         /\ UNCHANGED <<store, idx, merged, dropped>>
    ELSE /\ pc' = pc
         /\ outcome' = "ok"
         /\ store' = save_as_json(r.data, store).file
         /\ merged' = merged \cup {idx}
         /\ idx' = idx + 1
         /\ dropped' = (dropped \/ r.dropped)

\* One turn of the loop of pdf_process.  run_process reports a converter
\* that exits non-zero and returns; the converter then left no file in the
\* out folder, and file_read's open raises FileNotFoundError, which is
\* caught nowhere.  Otherwise the converter left `html`.
PdfFile(converted, html) ==
    /\ pc = "pdf"
    /\ idx <= nPdf
    /\ IF ~converted
       THEN /\ convFailed' = convFailed \cup {idx}
            /\ pc' = "crashed"
            /\ outcome' = "FileNotFoundError"
            /\ UNCHANGED <<store, idx, merged, dropped>>
       ELSE /\ PdfStore(HtmlTable[html])
            /\ UNCHANGED convFailed
    /\ UNCHANGED <<dirs, nCsv, nPdf>>

\* The end of pdf_process and of the run.
PdfProcessEnd ==
    /\ pc = "pdf"
    /\ idx > nPdf
    /\ pc' = "fin"
    /\ UNCHANGED <<store, outcome, dirs, nCsv, nPdf, idx, convFailed, merged, dropped>>

(***************************************************************************)
(* Specifications                                                          *)
(***************************************************************************)

InitIdleValid == cand = [date |-> ""] /\ verdict = "none"
InitIdleSource ==
    /\ src = [kind |-> "none", text |-> ""]
    /\ stage = "done"
    /\ content = <<>>
    /\ json = [raised |-> "none", data |-> <<>>]
InitIdlePipe ==
    /\ pc = "fin"
    /\ dirs = {}
    /\ nCsv = 0
    /\ nPdf = 0
    /\ idx = 0
    /\ convFailed = {}
    /\ merged = {}
    /\ dropped = FALSE

\* Any sequence of save_as_json calls, starting with no data.json.
Init == store = Absent /\ InitMerge /\ InitIdleValid /\ InitIdleSource /\ InitIdlePipe
Next ==
    \E data \in Batches :
        SaveAsJson(data) /\ UNCHANGED <<validVars, sourceVars, pipeVars>>
Spec == Init /\ [][Next]_vars

\* Any sequence of save_as_json calls, starting with any data.json.
InitStore ==
    /\ store \in InitialFiles
    /\ InitMerge /\ InitIdleValid /\ InitIdleSource /\ InitIdlePipe
SpecStore == InitStore /\ [][Next]_vars

\* The same batch merged twice into an empty store: no file, a file that
\* is no JSON (loaded as empty), or an empty array.
InitTwice ==
    /\ store \in {Absent, NotJson, JsonArray(<<>>)}
    /\ InitMerge /\ InitIdleValid /\ InitIdleSource /\ InitIdlePipe
NextTwice ==
    \E data \in Batches :
        /\ calls = 0 \/ (calls = 1 /\ data = batch)
        /\ SaveAsJson(data)
        /\ UNCHANGED <<validVars, sourceVars, pipeVars>>
SpecTwice == InitTwice /\ [][NextTwice]_vars

\* The validation of one row.
InitValidation ==
    /\ store = Absent
    /\ InitMerge /\ InitValid /\ InitIdleSource /\ InitIdlePipe
NextValidation == ValidateRow /\ UNCHANGED <<mergeVars, sourceVars, pipeVars>>
SpecValid == InitValidation /\ [][NextValidation]_vars

\* The extraction of one source file.
InitExtraction ==
    /\ store = Absent
    /\ InitMerge /\ InitIdleValid /\ InitSource /\ InitIdlePipe
NextExtraction ==
    \/ ExtractCsv /\ UNCHANGED <<mergeVars, validVars, pipeVars>>
    \/ ExtractHtml /\ UNCHANGED <<mergeVars, validVars, pipeVars>>
SpecSource == InitExtraction /\ [][NextExtraction]_vars

\* A run of the program, starting with no data.json.
InitRun ==
    /\ store = Absent
    /\ InitMerge /\ InitIdleValid /\ InitIdleSource /\ InitPipe
NextRun ==
    \/ CsvProcessBegin /\ UNCHANGED <<before, batch, calls, validVars, sourceVars>>
    \/ \E text \in CsvTexts :
          CsvFile(text) /\ UNCHANGED <<before, batch, calls, validVars, sourceVars>>
    \/ CsvProcessEnd /\ UNCHANGED <<before, batch, calls, validVars, sourceVars>>
    \/ PdfProcessBegin /\ UNCHANGED <<before, batch, calls, validVars, sourceVars>>
    \/ \E converted \in BOOLEAN, html \in HtmlTexts :
          PdfFile(converted, html)
          /\ UNCHANGED <<before, batch, calls, validVars, sourceVars>>
    \/ PdfProcessEnd /\ UNCHANGED <<before, batch, calls, validVars, sourceVars>>
SpecRun == InitRun /\ [][NextRun]_vars

(***************************************************************************)
(* Claims                                                                  *)
(***************************************************************************)

Items == IF store.kind = "array" THEN store.items ELSE <<>>
Identifiers(entries) == {Identifier(entries[i]) : i \in 1..Len(entries)}

\* C1: starting from an absent store, after any sequence of save_as_json
\* calls the persisted collection holds at most one record per (date, name).
C1_UniqueIdentifier ==
    \A i, j \in 1..Len(Items) :
        Identifier(Items[i]) = Identifier(Items[j]) => i = j

\* C1 witness: a batch with two records of one identifier has been merged
\* into a store that already held that identifier.
C1_Witness ==
    /\ outcome = "ok"
    /\ Len(batch) = 2
    /\ Identifier(batch[1]) = Identifier(batch[2])
    /\ batch[1] # batch[2]
    /\ Identifier(batch[1]) \in Identifiers(before.items)
    /\ Len(Items) = 2

\* C2: after a merge, every identifier of the batch has exactly one record
\* in the store, and that record is the batch's last record for the
\* identifier, whatever the store held for it before.
C2_BatchVersionWins ==
    outcome = "ok" =>
        \A j \in 1..Len(batch) :
            LET last == CHOOSE k \in j..Len(batch) :
                           /\ Identifier(batch[k]) = Identifier(batch[j])
                           /\ \A m \in (k + 1)..Len(batch) :
                                 Identifier(batch[m]) # Identifier(batch[j])
                hits == {i \in 1..Len(Items) :
                            Identifier(Items[i]) = Identifier(batch[j])}
            IN  /\ Cardinality(hits) = 1
                /\ \A i \in hits : Items[i] = batch[last]

\* C2 witness: the store held a different version of a record of the batch.
C2_Witness ==
    /\ outcome = "ok"
    /\ \E i \in 1..Len(before.items), j \in 1..Len(batch) :
          /\ Identifier(before.items[i]) = Identifier(batch[j])
          /\ before.items[i] # batch[j]
          /\ \E k \in 1..Len(Items) : Items[k] = batch[j]

\* C3: merging a batch a second time into the store its first merge into
\* an empty store produced leaves the store as it is, order included.
C3_MergeTwice == calls = 2 => (outcome = "ok" /\ store = before)

\* C3 witness: a batch of two records with different identifiers was merged twice.
C3_Witness ==
    /\ calls = 2
    /\ Len(batch) = 2
    /\ Len(Items) = 2
    /\ store = before

\* C4: with data.json absent, or holding anything but an array of objects
\* that carry date and name, save_as_json raises nothing and persists
\* exactly the deduplicated batch.
C4_UnusableStoreIsEmpty ==
    (/\ outcome # "none"
     /\ \/ before.kind # "array"
        \/ \E i \in 1..Len(before.items) : ~HasIdentifier(before.items[i]))
    => /\ outcome = "ok"
       /\ store.kind = "array"
       /\ C1_UniqueIdentifier
       /\ Identifiers(store.items) = Identifiers(batch)
       /\ C2_BatchVersionWins

\* C8: a merge keeps every stored record whose identifier is not in the
\* batch, unchanged, and the identifiers afterwards are exactly those
\* loaded and those of the batch.
C8_OthersUntouched ==
    outcome = "ok" =>
        /\ \A i \in 1..Len(before.items) :
              Identifier(before.items[i]) \notin Identifiers(batch)
              => \E k \in 1..Len(Items) : Items[k] = before.items[i]
        /\ Identifiers(Items) = Identifiers(before.items) \cup Identifiers(batch)

\* C8 witness: a merge into a store holding an identifier the batch lacks.
C8_Witness ==
    /\ outcome = "ok"
    /\ batch # <<>>
    /\ \E i \in 1..Len(before.items) :
          Identifier(before.items[i]) \notin Identifiers(batch)

\* What the specification's grammar says of a value: an optional minus
\* sign, then digits and exactly one decimal point, which is not first.
ValueGrammar(value) ==
    LET cs == Chars(value)
        body == IF cs # <<>> /\ cs[1] = "-" THEN Tail(cs) ELSE cs
    IN  \E d \in 2..Len(body) :
            /\ body[d] = "."
            /\ \A k \in 1..Len(body) : k # d => body[k] \in Digits

\* C5: is_valid_row accepts a candidate record iff its date is non-empty
\* and begins with a DD/MM/YYYY HH:MM token, its value is in the value
\* grammar, and its name is non-empty; oldvalue, range and unit play no part.
C5_ValidatorGrammar ==
    verdict # "none" =>
        (verdict = "accepted" <=>
            /\ cand["date"] # ""
            /\ DateAt(Chars(cand["date"]), 1)
            /\ ValueGrammar(cand["value"])
            /\ cand["name"] # "")

\* C5 witness: a row with an empty fraction was accepted.
C5_Witness ==
    /\ verdict = "accepted"
    /\ cand["value"] = "7."
    /\ cand["date"] = "01/10/2023 09:15:30"

\* C6: the pattern guard of csv_extract_valid_rows lets through no row with
\* fewer than 13 fields, so csv_parse_lines reads no position out of range
\* and raises nothing.
C6_ShortRowsExcluded ==
    (stage = "done" /\ src.kind = "csv") =>
        /\ \A k \in 1..Len(content) : Len(CsvRow(content[k])) >= CsvFieldsNeeded
        /\ json.raised = "ok"

\* The dict a physical line yields when it is read as the seven-field
\* grammar date|oldvalue|range|unit|value|name|rest, by its "|".
LineFields(line) ==
    LET cells == split(line, "|")
    IN  [date |-> strip(Str(cells[1])), oldvalue |-> strip(Str(cells[2])),
         range |-> strip(Str(cells[3])), unit |-> strip(Str(cells[4])),
         value |-> strip(Str(cells[5])), name |-> strip(Str(cells[6]))]

\* C9: every record extract_lines_with_specified_format produces comes from
\* one physical line of the text that has the seven fields, and no field
\* of it holds a line break.
C9_LineAnchored ==
    (stage = "done" /\ src.kind = "html") =>
        \A k \in 1..Len(json.data) :
            /\ \A f \in FieldNames : ~Contains(Chars(json.data[k][f]), "\n")
            /\ \E line \in {split(Chars(content), "\n")[i] :
                              i \in 1..Len(split(Chars(content), "\n"))} :
                  /\ Len(split(line, "|")) >= 7
                  /\ LineFields(line) = json.data[k]

\* C7: a failed conversion does not end the run, and when the run is over
\* every pdf file after the failed one has been extracted and merged.
C7_RunSurvivesConverterFailure ==
    \A failed \in convFailed :
        /\ pc # "crashed"
        /\ pc = "fin" => \A later \in (failed + 1)..nPdf : later \in merged

\* C10: every record of data.json satisfies is_valid_row and has exactly
\* the six fields, whatever source files the run has processed.
C10_StoreHoldsValidRows ==
    \A i \in 1..Len(Items) :
        /\ is_valid_row(Items[i])
        /\ DOMAIN Items[i] = FieldNames

\* C10 witness: the run is over, it merged files of both kinds, some of
\* their rows were rejected, and the store holds records.
C10_Witness ==
    /\ pc = "fin"
    /\ dropped
    /\ nCsv > 0
    /\ merged # {}
    /\ Len(Items) >= 2

====
